---------------------------- MODULE Spec2Model ----------------------------
(***************************************************************************)
(* filter_planes_and_holes                                                 *)
(* (surfacedetector/utility/helper_planefiltering.py) as a state machine.  *)
(*                                                                         *)
(* Numbers.  Coordinates, buffer distances and areas are integers on a     *)
(* unit grid; every ring the function works on is rectilinear in the       *)
(* working frame, so areas are exact.  A coordinate is a tuple <<x, y>>    *)
(* (dim 2) or <<x, y, z>> (dim 3).  A ring is the coordinate sequence of   *)
(* a shapely LinearRing: closed, the first coordinate repeated at the end. *)
(* A polygon is [ext |-> ring, holes |-> sequence of rings]; the empty     *)
(* polygon has ext = <<>>.  A geometry is                                  *)
(* [geom_type |-> "Polygon" | "MultiPolygon", geoms |-> polygons].         *)
(*                                                                         *)
(* Library calls (shapely, numpy, scipy, polylidar) are modelled by what   *)
(* they compute on this grid:                                              *)
(*   buffer(d, join_style=mitre) of a rectilinear polygon is the Minkowski *)
(*   sum (d > 0) or erosion (d < 0) with the square [-d, d]^2, computed on *)
(*   unit cells and traced back into rings of dim 2;                       *)
(*   simplify(tolerance) is taken with a tolerance below the grid step, so *)
(*   it removes exactly the vertices that lie inside a straight run and    *)
(*   keeps each ring's first coordinate and every z;                       *)
(*   a Rotation is an exact quarter turn.                                  *)
(***************************************************************************)
EXTENDS Integers, Sequences, FiniteSets, TLC

\* ------------------------------------------------------------------------
\* Small arithmetic and sequence helpers
\* ------------------------------------------------------------------------

Abs(n) == IF n < 0 THEN -n ELSE n

Min2(a, b) == IF a < b THEN a ELSE b

Max2(a, b) == IF a > b THEN a ELSE b

SetMin(S) == CHOOSE m \in S : \A n \in S : m <= n

SetMax(S) == CHOOSE m \in S : \A n \in S : m >= n

RECURSIVE SeqSum(_)
SeqSum(s) == IF s = <<>> THEN 0 ELSE Head(s) + SeqSum(Tail(s))

RECURSIVE Flatten(_)
Flatten(ss) == IF ss = <<>> THEN <<>> ELSE Head(ss) \o Flatten(Tail(ss))

\* Lexicographic order on grid points / cells <<a, b>>.
LexLeq(p, q) == p[1] < q[1] \/ (p[1] = q[1] /\ p[2] <= q[2])

LexMin(S) == CHOOSE p \in S : \A q \in S : LexLeq(p, q)

\* ------------------------------------------------------------------------
\* shapely: rings, polygons, area
\* ------------------------------------------------------------------------

\* LinearRing(coords): a ring is stored closed; an open coordinate list gets
\* its first coordinate appended.
CloseRing(cs) ==
    IF cs = <<>> THEN <<>>
    ELSE IF Len(cs) > 1 /\ cs[1] = cs[Len(cs)] THEN cs
    ELSE Append(cs, cs[1])

\* Polygon(shell=..., holes=...)
MakePolygon(shell, holes) ==
    [ext |-> CloseRing(shell),
     holes |-> [k \in 1..Len(holes) |-> CloseRing(holes[k])]]

EmptyPolygon == [ext |-> <<>>, holes |-> <<>>]

\* Twice the signed area of the ring's projection on the first two axes.
Shoelace2(ring) ==
    SeqSum([k \in 1..(Len(ring) - 1) |->
              ring[k][1] * ring[k + 1][2] - ring[k + 1][1] * ring[k][2]])

\* ring area as shapely computes it: x and y only, unsigned.
RingArea(ring) == IF Len(ring) < 4 THEN 0 ELSE Abs(Shoelace2(ring)) \div 2

\* geom.area of a polygon: the exterior minus the holes.
PolyArea(p) ==
    RingArea(p.ext) - SeqSum([k \in 1..Len(p.holes) |-> RingArea(p.holes[k])])

\* ------------------------------------------------------------------------
\* GEOS buffer on the unit grid.  A cell <<i, j>> is the unit square with
\* lower left corner (i, j).
\* ------------------------------------------------------------------------

\* The vertical edges <<x, ylow, yhigh>> of a rectilinear ring.
VerticalEdges(ring) ==
    {<<ring[k][1], Min2(ring[k][2], ring[k + 1][2]), Max2(ring[k][2], ring[k + 1][2])>> :
        k \in {m \in 1..(Len(ring) - 1) : ring[m][1] = ring[m + 1][1]}}

\* Even-odd test of the centre of cell <<i, j>> against a ring, given the
\* ring's vertical edges: those right of the cell that span its row.
InRing(edges, i, j) ==
    Cardinality({e \in edges : e[1] > i /\ e[2] <= j /\ j < e[3]}) % 2 = 1

\* The cells a polygon covers: inside the exterior, outside every hole.
Cells(p) ==
    IF p.ext = <<>> THEN {}
    ELSE LET xs == {p.ext[k][1] : k \in 1..Len(p.ext)}
             ys == {p.ext[k][2] : k \in 1..Len(p.ext)}
             box == (SetMin(xs)..(SetMax(xs) - 1)) \X (SetMin(ys)..(SetMax(ys) - 1))
             shell == VerticalEdges(p.ext)
             holes == UNION {VerticalEdges(p.holes[h]) : h \in 1..Len(p.holes)}
         IN {c : c \in {b \in box : /\ InRing(shell, b[1], b[2])
                                    /\ ~InRing(holes, b[1], b[2])}}

\* Minkowski sum with the square [-d, d]^2 (mitre joins keep square corners).
Dilate(S, d) ==
    UNION {{<<c[1] + a, c[2] + b>> : a \in (-d)..d, b \in (-d)..d} : c \in S}

\* Erosion by the same square.
Erode(S, d) ==
    {c : c \in {e \in S : \A a \in (-d)..d, b \in (-d)..d :
                                <<e[1] + a, e[2] + b>> \in S}}

Nbrs4(c) ==
    {<<c[1] + 1, c[2]>>, <<c[1] - 1, c[2]>>, <<c[1], c[2] + 1>>, <<c[1], c[2] - 1>>}

\* Flood fill: the edge-connected part of S that contains the frontier F.
RECURSIVE Grow(_, _, _)
Grow(C, F, S) ==
    LET N == {c : c \in ((UNION {Nbrs4(f) : f \in F}) \cap S) \ C}
    IN IF N = {} THEN C ELSE Grow({c : c \in C \cup N}, N, S)

\* The edge-connected parts of S, in the order of their least cell.
RECURSIVE Components(_)
Components(S) ==
    IF S = {} THEN <<>>
    ELSE LET C == {c : c \in Grow({LexMin(S)}, {LexMin(S)}, S)}
         IN <<C>> \o Components({c : c \in S \ C})

\* Directed unit boundary edges <<from, to>> of a cell set, the set on the left.
BoundaryEdges(C) ==
       {<<<<c[1], c[2]>>, <<c[1] + 1, c[2]>>>> : c \in {c \in C : <<c[1], c[2] - 1>> \notin C}}
  \cup {<<<<c[1] + 1, c[2]>>, <<c[1] + 1, c[2] + 1>>>> : c \in {c \in C : <<c[1] + 1, c[2]>> \notin C}}
  \cup {<<<<c[1] + 1, c[2] + 1>>, <<c[1], c[2] + 1>>>> : c \in {c \in C : <<c[1], c[2] + 1>> \notin C}}
  \cup {<<<<c[1], c[2] + 1>>, <<c[1], c[2]>>>> : c \in {c \in C : <<c[1] - 1, c[2]>> \notin C}}

EdgeDir(e) == <<e[2][1] - e[1][1], e[2][2] - e[1][2]>>

\* The boundary cycle that starts with edge e0, as a sequence of edges.
RECURSIVE WalkCycle(_, _, _)
WalkCycle(E, e0, acc) ==
    LET last == acc[Len(acc)]
        next == CHOOSE f \in E : f[1] = last[2]
    IN IF next = e0 THEN acc ELSE WalkCycle(E, e0, Append(acc, next))

\* The corners of a cycle of edges, from its first edge's origin, closed.
CycleRing(cyc) ==
    LET n == Len(cyc)
        prev(k) == IF k = 1 THEN cyc[n] ELSE cyc[k - 1]
        corners == {k \in 1..n : EdgeDir(prev(k)) # EdgeDir(cyc[k])}
        RECURSIVE Pick(_)
        Pick(k) == IF k > n THEN <<>>
                   ELSE IF k \in corners THEN <<cyc[k][1]>> \o Pick(k + 1)
                   ELSE Pick(k + 1)
    IN CloseRing(Pick(1))

\* All boundary rings of an edge set; each starts at its least vertex, and
\* the ring through the overall least vertex (the exterior) comes first.
RECURSIVE RingsOf(_)
RingsOf(E) ==
    IF E = {} THEN <<>>
    ELSE LET v0  == LexMin({e[1] : e \in E})
             e0  == CHOOSE e \in E : e[1] = v0
             cyc == WalkCycle(E, e0, <<e0>>)
         IN <<CycleRing(cyc)>> \o RingsOf(E \ {cyc[k] : k \in 1..Len(cyc)})

\* One connected cell set as a polygon with dim 2 coordinates.
CellsToPolygon(C) ==
    LET rings == RingsOf(BoundaryEdges(C))
    IN [ext |-> rings[1], holes |-> Tail(rings)]

\* A cell set as a geometry: POLYGON EMPTY, a Polygon or a MultiPolygon.
CellsToGeometry(S) ==
    LET comps == Components(S)
    IN IF comps = <<>> THEN [geom_type |-> "Polygon", geoms |-> <<EmptyPolygon>>]
       ELSE [geom_type |-> IF Len(comps) = 1 THEN "Polygon" ELSE "MultiPolygon",
             geoms |-> [k \in 1..Len(comps) |-> CellsToPolygon(comps[k])]]

\* geom.buffer(distance, join_style=JOIN_STYLE.mitre) of a Polygon.
Buffer(p, distance) ==
    IF distance >= 0 THEN CellsToGeometry(Dilate(Cells(p), distance))
    ELSE CellsToGeometry(Erode(Cells(p), -distance))

\* geom.simplify(tolerance, preserve_topology=True) of one ring, tolerance
\* below the grid step: a vertex inside a straight run goes, the ring's first
\* (= closing) coordinate stays, coordinates keep their z.
SimplifyRing(ring) ==
    LET n == Len(ring)
        straight(k) ==
            (ring[k][1] - ring[k - 1][1]) * (ring[k + 1][2] - ring[k][2])
              = (ring[k][2] - ring[k - 1][2]) * (ring[k + 1][1] - ring[k][1])
        RECURSIVE Keep(_)
        Keep(k) == IF k > n THEN <<>>
                   ELSE IF k > 1 /\ k < n /\ straight(k) THEN Keep(k + 1)
                   ELSE <<ring[k]>> \o Keep(k + 1)
    IN Keep(1)

SimplifyPolygon(p) ==
    [ext |-> SimplifyRing(p.ext),
     holes |-> [k \in 1..Len(p.holes) |-> SimplifyRing(p.holes[k])]]

\* geom.simplify on a Polygon or on every part of a MultiPolygon.
Simplify(g) ==
    [geom_type |-> g.geom_type,
     geoms |-> [k \in 1..Len(g.geoms) |-> SimplifyPolygon(g.geoms[k])]]

\* A Polygon object as a geometry.
PolygonGeom(p) == [geom_type |-> "Polygon", geoms |-> <<p>>]

\* np.asarray(ring).shape[1]; the caller guards the empty ring.
Dim(ring) == Len(ring[1])

\* ------------------------------------------------------------------------
\* scipy Rotation: None, or an exact quarter turn about the x axis
\* ------------------------------------------------------------------------

None == "None"

Rotations == {"Rx90", "Rx270"}

\* rm.apply(coords)
RmApply(r, coords) ==
    [k \in 1..Len(coords) |->
        IF r = "Rx90" THEN <<coords[k][1], -coords[k][3], coords[k][2]>>
        ELSE <<coords[k][1], coords[k][3], -coords[k][2]>>]

\* rm.inv() that hands back the rotation itself.
RmInv_Same(r) == r

\* rm.inv()
RmInv(r) == IF r = "Rx90" THEN "Rx270" ELSE "Rx90"

\* ------------------------------------------------------------------------
\* polylidar.polylidarutil.plane_filtering: get_points, create_kd_tree,
\* recover_3d
\* ------------------------------------------------------------------------

\* points[point_idxs, :]
get_points(point_idxs, pts) == [k \in 1..Len(point_idxs) |-> pts[point_idxs[k]]]

\* create_kd_tree appends shell_coords to the caller's hole_coords list and
\* stacks the list: the tree's data.
KdData(shell, holes) == Flatten(Append(holes, shell))

SqDist(a, b) ==
    (a[1] - b[1]) * (a[1] - b[1]) + (a[2] - b[2]) * (a[2] - b[2])
      + (a[3] - b[3]) * (a[3] - b[3])

\* kdtree.query(q): the row of the nearest data point (the first of equals).
KdQuery(data, q) ==
    LET dist == [k \in 1..Len(data) |-> SqDist(data[k], q)]
        best == SetMin({dist[k] : k \in 1..Len(data)})
    IN SetMin({k \in 1..Len(data) : dist[k] = best})

\* One ring through recover_3d: add_column(ring, z_value), then each row
\* takes the z of its nearest tree point.
RecoverRing(ring, data, z) ==
    [k \in 1..Len(ring) |->
        <<ring[k][1], ring[k][2],
          data[KdQuery(data, <<ring[k][1], ring[k][2], z>>)][3]>>]

\* recover_3d(poly, kd_tree, z_value) on a polygon with dim 2 rings.
recover_3d(p, data, z) ==
    [ext |-> RecoverRing(p.ext, data, z),
     holes |-> [k \in 1..Len(p.holes) |-> RecoverRing(p.holes[k], data, z)]]

\* ------------------------------------------------------------------------
\* Inputs: one frame's point cloud, the raw polygons polylidar can hand
\* over for it, and the post-processing configurations
\* ------------------------------------------------------------------------

\* Longest polygon list a call is given.
MaxPolys == 2

\* The point cloud rows (x, y, z).  Rows 0-17: a floor region made of an
\* 8x8 and a 3x3 block joined by a corridor of width 1, with an L-shaped
\* hole of 6 vertices and area 3.  Rows 18-22: a 2x2 floor square with one
\* vertex inside a straight run.  Rows 23-32: an 8x8 wall in the plane
\* y = 5 (z runs downwards) with an L-shaped hole; the third coordinate of
\* the working frame carries sensor noise.
PointRows ==
    << <<0, 0, 2>>, <<8, 0, 1>>, <<8, 3, 1>>, <<10, 3, 1>>, <<10, 2, 1>>,
       <<13, 2, 1>>, <<13, 5, 1>>, <<10, 5, 1>>, <<10, 4, 1>>, <<8, 4, 1>>,
       <<8, 8, 1>>, <<0, 8, 1>>,
       <<3, 3, 3>>, <<5, 3, 3>>, <<5, 4, 3>>, <<4, 4, 3>>, <<4, 5, 3>>,
       <<3, 5, 3>>,
       <<0, 0, 4>>, <<1, 0, 1>>, <<2, 0, 1>>, <<2, 2, 1>>, <<0, 2, 1>>,
       <<0, 6, 0>>, <<8, 5, 0>>, <<8, 5, -8>>, <<0, 5, -8>>,
       <<3, 7, -3>>, <<5, 7, -3>>, <<5, 7, -4>>, <<4, 7, -4>>, <<4, 7, -5>>,
       <<3, 7, -5>> >>

\* The MX3 ndarray, rows numbered from 0.
PointCloud == [k \in 0..(Len(PointRows) - 1) |-> PointRows[k + 1]]

\* Raw polygons: index lists into the point cloud.
Dumbbell ==
    [shell |-> <<0, 1, 2, 3, 4, 5, 6, 7, 8, 9, 10, 11>>,
     holes |-> << <<12, 13, 14, 15, 16, 17>> >>]

SmallSquare == [shell |-> <<18, 19, 20, 21, 22, 18>>, holes |-> <<>>]

EmptyShell == [shell |-> <<>>, holes |-> <<>>]

WallPlate ==
    [shell |-> <<23, 24, 25, 26>>,
     holes |-> << <<27, 28, 29, 30, 31, 32>> >>]

\* Polygons of a horizontal cluster come without a rotation, those of a
\* vertical cluster with the rotation that lays them flat.
RawPolygons(r) ==
    IF r = None THEN {Dumbbell, SmallSquare, EmptyShell}
    ELSE {WallPlate, EmptyShell}

PolygonLists(r) == UNION {[1..n -> RawPolygons(r)] : n \in 0..MaxPolys}

Configs ==
    [simplify : {0, 1},
     positive_buffer : {0, 1},
     negative_buffer : {0, 1},
     filter : [hole_area : [min : {0, 3}, max : {3, 16}],
               hole_vertices : [min : {5, 6, 7}],
               plane_area : [min : {0, 4, 9}]]]

\* ------------------------------------------------------------------------
\* State
\* ------------------------------------------------------------------------

VARIABLES
    polygons,         \* argument: the raw polygon list
    points,           \* the name points: the argument, rebound at line 170
    config_pp,        \* argument
    rm,               \* argument: None or a rotation
    pc,               \* position: for_poly, normalize, for_region, for_hole,
                      \*           done (returned), raised
    error,            \* the exception that left the function, or None
    poly_index,       \* enumerate(polygons), from 0
    shell_coords,     \* line 70 / 73
    hole_coords,      \* line 71 / 74, grown by create_kd_tree
    z_value,          \* line 90, line 164
    poly_shape,       \* the working geometry, then the region of line 131
    all_poly_shapes,  \* line 116 / 120
    region_index,     \* position in all_poly_shapes, from 0
    hole_index,       \* position in poly_shape.interiors, from 0
    planes,           \* list of (polygon, z_value)
    obstacles,        \* list of (polygon, z_value)
    planes_indices,   \* list of poly_index
    trace,            \* history: what the current call did, in order
    cloud,            \* the caller's MX3 ndarray, the object passed as points
    geos_order,       \* the part orders GEOS has given so far, per geometry
    call,             \* 1: the first call; 2: the same call made again
    first             \* what the first call returned, or None

inputs == <<polygons, config_pp, rm>>

locals == <<shell_coords, hole_coords, z_value, poly_shape, all_poly_shapes,
            region_index, hole_index>>

outputs == <<planes, obstacles, planes_indices>>

vars == <<polygons, points, config_pp, rm, pc, error, poly_index,
          shell_coords, hole_coords, z_value, poly_shape, all_poly_shapes,
          region_index, hole_index, planes, obstacles, planes_indices, trace,
          cloud, geos_order, call, first>>

post_filter == config_pp.filter

\* One history entry: the step, the polygon and region it worked on, and
\* what it measured (n: coordinates of the ring, parts of the geometry, or
\* dim of the region handed to recover_3d; area) and decided (ok).  The steps: rotate, early_reject, z_value,
\* simplify, positive_buffer, negative_buffer, regions, region_reject,
\* region_accept, recover_3d, plane, hole, unrotate.
Event(op, r, h, n, area, ok) ==
    [op |-> op, poly |-> poly_index, region |-> r, hole |-> h,
     n |-> n, area |-> area, ok |-> ok]

Init ==
    /\ rm \in {None, "Rx90"}
    /\ polygons \in PolygonLists(rm)
    /\ points = PointCloud
    /\ config_pp \in Configs
    /\ pc = "for_poly"
    /\ error = None
    /\ poly_index = 0
    /\ shell_coords = <<>>
    /\ hole_coords = <<>>
    /\ z_value = 0
    /\ poly_shape = PolygonGeom(EmptyPolygon)
    /\ all_poly_shapes = <<>>
    /\ region_index = 0
    /\ hole_index = 0
    /\ planes = <<>>
    /\ obstacles = <<>>
    /\ planes_indices = <<>>
    /\ trace = <<>>
    /\ cloud = PointCloud
    /\ geos_order = {}
    /\ call = 1
    /\ first = None

\* ------------------------------------------------------------------------
\* Lines 67-90: the head of one iteration of the polygon loop
\* ------------------------------------------------------------------------

\* Python truth of a number.
Truthy(x) == x # 0

\* Lines 69-74: the shell's rows, rotated when a rotation is given.
ShellCoords(poly) ==
    IF rm # None THEN RmApply(rm, get_points(poly.shell, points))
    ELSE get_points(poly.shell, points)

HoleCoords(poly) ==
    [k \in 1..Len(poly.holes) |->
        IF rm # None THEN RmApply(rm, get_points(poly.holes[k], points))
        ELSE get_points(poly.holes[k], points)]

\* Line 87 with <= for <.
EarlyRejects_NonStrict(area) ==
    /\ Truthy(post_filter.plane_area.min)
    /\ area <= post_filter.plane_area.min

\* Line 87: the early rejection on the initial area.
EarlyRejects(area) ==
    /\ Truthy(post_filter.plane_area.min)
    /\ area < post_filter.plane_area.min

\* Line 90 reading the last row instead of the first.
ReferenceZ_LastRow(coords) == coords[Len(coords)][3]

\* Line 90 skipped once a plane exists: the z_value left by the polygons
\* before is kept.
ReferenceZ_Carried(coords) == IF planes = <<>> THEN coords[1][3] ELSE z_value

\* Line 90: the z of the first row of shell_coords.
ReferenceZ(coords) == coords[1][3]

RotateEvents == IF rm # None THEN <<Event("rotate", 0, 0, 0, 0, TRUE)>> ELSE <<>>

InPolygonLoop ==
    /\ pc = "for_poly"
    /\ poly_index < Len(polygons)

\* Line 76 on a shell without rows, shapely builds that refuse an empty
\* coordinate array: ValueError leaves the function.
PolygonError ==
    /\ InPolygonLoop
    /\ LET poly == polygons[poly_index + 1]
       IN /\ Len(ShellCoords(poly)) = 0
          /\ shell_coords' = ShellCoords(poly)
          /\ hole_coords' = HoleCoords(poly)
    /\ error' = "ValueError"
    /\ pc' = "raised"
    /\ trace' = trace \o RotateEvents
    /\ UNCHANGED <<call, first, geos_order, cloud,
                   polygons, points, config_pp, rm, poly_index, z_value,
                   poly_shape, all_poly_shapes, region_index, hole_index,
                   planes, obstacles, planes_indices>>

\* Lines 67-89: the initial area is below a truthy plane_area.min: continue.
\* (A shapely build that accepts the empty array makes an empty polygon of
\* area 0, which goes this way too.)
EarlyReject ==
    /\ InPolygonLoop
    /\ LET poly == polygons[poly_index + 1]
           shape == MakePolygon(ShellCoords(poly), HoleCoords(poly))
       IN /\ EarlyRejects(PolyArea(shape))
          /\ shell_coords' = ShellCoords(poly)
          /\ hole_coords' = HoleCoords(poly)
          /\ poly_shape' = PolygonGeom(shape)
          /\ trace' = trace \o RotateEvents
                        \o <<Event("early_reject", 0, 0, 0, PolyArea(shape), FALSE)>>
    /\ poly_index' = poly_index + 1
    /\ UNCHANGED <<call, first, geos_order, cloud,
                   polygons, points, config_pp, rm, pc, error, z_value,
                   all_poly_shapes, region_index, hole_index,
                   planes, obstacles, planes_indices>>

\* Line 90 on a shell without rows that was not rejected: shell_coords[0]
\* raises IndexError.
ZValueError ==
    /\ InPolygonLoop
    /\ LET poly == polygons[poly_index + 1]
           shape == MakePolygon(ShellCoords(poly), HoleCoords(poly))
       IN /\ Len(ShellCoords(poly)) = 0
          /\ ~EarlyRejects(PolyArea(shape))
          /\ shell_coords' = ShellCoords(poly)
          /\ hole_coords' = HoleCoords(poly)
          /\ poly_shape' = PolygonGeom(shape)
    /\ error' = "IndexError"
    /\ pc' = "raised"
    /\ trace' = trace \o RotateEvents
    /\ UNCHANGED <<call, first, geos_order, cloud,
                   polygons, points, config_pp, rm, poly_index, z_value,
                   all_poly_shapes, region_index, hole_index,
                   planes, obstacles, planes_indices>>

\* Lines 67-90: the polygon passes the early check; z_value is read from the
\* first row of shell_coords.
AcceptPolygon ==
    /\ InPolygonLoop
    /\ LET poly == polygons[poly_index + 1]
           shape == MakePolygon(ShellCoords(poly), HoleCoords(poly))
       IN /\ Len(ShellCoords(poly)) > 0
          /\ ~EarlyRejects(PolyArea(shape))
          /\ shell_coords' = ShellCoords(poly)
          /\ hole_coords' = HoleCoords(poly)
          /\ poly_shape' = PolygonGeom(shape)
          /\ z_value' = ReferenceZ(ShellCoords(poly))
          /\ trace' = trace \o RotateEvents
                        \o <<Event("z_value", 0, 0, 0, PolyArea(shape), TRUE)>>
    /\ pc' = "normalize"
    /\ UNCHANGED <<call, first, geos_order, cloud,
                   polygons, points, config_pp, rm, error, poly_index,
                   all_poly_shapes, region_index, hole_index,
                   planes, obstacles, planes_indices>>

\* ------------------------------------------------------------------------
\* Lines 93-120: simplify, positive buffer, negative buffer, simplify, split
\* ------------------------------------------------------------------------

\* Lines 93-95 without the test of config_pp['simplify'].
Simplify1_Always(g) == Simplify(g)

\* Lines 93-95
Simplify1(g) == IF Truthy(config_pp.simplify) THEN Simplify(g) ELSE g

\* Lines 98-100; the operand is always a single Polygon.
PositiveBuffer(g) ==
    IF Truthy(config_pp.positive_buffer)
    THEN Buffer(g.geoms[1], config_pp.positive_buffer)
    ELSE g

\* Lines 102-104
NegativeBuffer(g) ==
    IF Truthy(config_pp.negative_buffer)
    THEN Buffer(g.geoms[1], -config_pp.negative_buffer)
    ELSE g

\* Lines 111-113
Simplify2(g) == IF Truthy(config_pp.simplify) THEN Simplify(g) ELSE g

\* Lines 115-120 with the commented-out lines 117-118 in force: only the
\* largest part of a MultiPolygon is kept.
AllPolyShapes_LargestOnly(g) ==
    IF g.geom_type = "MultiPolygon"
    THEN LET big == CHOOSE k \in 1..Len(g.geoms) :
                      \A m \in 1..Len(g.geoms) : PolyArea(g.geoms[k]) >= PolyArea(g.geoms[m])
         IN <<PolygonGeom(g.geoms[big])>>
    ELSE <<g>>

\* Lines 115-120: every part of a MultiPolygon, or the one polygon.
AllPolyShapes(g) ==
    IF g.geom_type = "MultiPolygon"
    THEN [k \in 1..Len(g.geoms) |-> PolygonGeom(g.geoms[k])]
    ELSE <<g>>

\* The orders in which GEOS may list the parts of a MultiPolygon: the code
\* takes list(poly_shape.geoms) as it comes.  GEOS is a function: the same
\* geometry comes with the same order every time (geos_order).
PartOrders(n) ==
    {f \in [1..n -> 1..n] : \A a, b \in 1..n : f[a] = f[b] => a = b}

NormalizeEvents ==
    (IF Truthy(config_pp.simplify)
       THEN <<Event("simplify", 0, 0, 0, 0, TRUE)>> ELSE <<>>)
    \o (IF Truthy(config_pp.positive_buffer)
          THEN <<Event("positive_buffer", 0, 0, 0, 0, TRUE)>> ELSE <<>>)
    \o (IF Truthy(config_pp.negative_buffer)
          THEN <<Event("negative_buffer", 0, 0, 0, 0, TRUE)>> ELSE <<>>)
    \o (IF Truthy(config_pp.simplify)
          THEN <<Event("simplify", 0, 0, 0, 0, TRUE)>> ELSE <<>>)

Normalize ==
    /\ pc = "normalize"
    /\ poly_shape' = Simplify2(NegativeBuffer(PositiveBuffer(Simplify1(poly_shape))))
    /\ \E order \in PartOrders(Len(AllPolyShapes(poly_shape'))) :
          /\ \A known \in geos_order : known[1] = poly_shape' => known[2] = order
          /\ geos_order' = IF Len(order) > 1
                           THEN geos_order \cup {<<poly_shape', order>>}
                           ELSE geos_order
          /\ all_poly_shapes' = [k \in 1..Len(AllPolyShapes(poly_shape')) |->
                                   AllPolyShapes(poly_shape')[order[k]]]
    /\ trace' = trace \o NormalizeEvents
                  \o <<Event("regions", 0, 0, Len(poly_shape'.geoms), 0, TRUE)>>
    /\ region_index' = 0
    /\ pc' = "for_region"
    /\ UNCHANGED <<call, first, cloud,
                   polygons, points, config_pp, rm, error, poly_index,
                   shell_coords, hole_coords, z_value, hole_index,
                   planes, obstacles, planes_indices>>

\* ------------------------------------------------------------------------
\* Lines 131-155: one region of all_poly_shapes
\* ------------------------------------------------------------------------

InRegionLoop ==
    /\ pc = "for_region"
    /\ region_index < Len(all_poly_shapes)

\* The region line 131 binds to poly_shape.
Region == all_poly_shapes[region_index + 1].geoms[1]

\* Line 135 with the comparison turned round.
PlaneAccepts_Flipped(area) ==
    \/ post_filter.plane_area.min <= 0
    \/ area <= post_filter.plane_area.min

\* Line 135: the region is kept as a plane.
PlaneAccepts(area) ==
    \/ post_filter.plane_area.min <= 0
    \/ area >= post_filter.plane_area.min

\* Line 138, with Python's precedence: and binds tighter than or.
RecoveryGate(dim) ==
    \/ Truthy(config_pp.negative_buffer)
    \/ Truthy(config_pp.simplify)
    \/ (Truthy(config_pp.positive_buffer) /\ dim < 3)

\* Lines 131-135: the region's area is below the threshold; next region.
RejectRegion ==
    /\ InRegionLoop
    /\ ~PlaneAccepts(PolyArea(Region))
    /\ poly_shape' = all_poly_shapes[region_index + 1]
    /\ region_index' = region_index + 1
    /\ trace' = Append(trace, Event("region_reject", region_index, 0, 0,
                                    PolyArea(Region), FALSE))
    /\ UNCHANGED <<call, first, geos_order, cloud,
                   polygons, points, config_pp, rm, pc, error, poly_index,
                   shell_coords, hole_coords, z_value, all_poly_shapes,
                   hole_index, planes, obstacles, planes_indices>>

\* Line 136 on an accepted region without coordinates (POLYGON EMPTY): the
\* array of its exterior has shape (0,), and shape[1] raises IndexError.
DimError ==
    /\ InRegionLoop
    /\ PlaneAccepts(PolyArea(Region))
    /\ Region.ext = <<>>
    /\ poly_shape' = all_poly_shapes[region_index + 1]
    /\ error' = "IndexError"
    /\ pc' = "raised"
    /\ trace' = Append(trace, Event("region_accept", region_index, 0, 0,
                                    PolyArea(Region), TRUE))
    /\ UNCHANGED <<call, first, geos_order, cloud,
                   polygons, points, config_pp, rm, poly_index,
                   shell_coords, hole_coords, z_value, all_poly_shapes,
                   region_index, hole_index, planes, obstacles, planes_indices>>

\* Lines 138-144 on an accepted region that still has dim 3: recover_3d adds
\* a fourth column and the tree of 3-vectors refuses the query: ValueError.
RecoverError ==
    /\ InRegionLoop
    /\ PlaneAccepts(PolyArea(Region))
    /\ Region.ext # <<>>
    /\ RecoveryGate(Dim(Region.ext))
    /\ Dim(Region.ext) = 3
    /\ poly_shape' = all_poly_shapes[region_index + 1]
    /\ hole_coords' = Append(hole_coords, shell_coords)
    /\ error' = "ValueError"
    /\ pc' = "raised"
    /\ trace' = trace \o <<Event("region_accept", region_index, 0, 0,
                                 PolyArea(Region), TRUE),
                           Event("recover_3d", region_index, 0, Dim(Region.ext),
                                 0, FALSE)>>
    /\ UNCHANGED <<call, first, geos_order, cloud,
                   polygons, points, config_pp, rm, poly_index,
                   shell_coords, z_value, all_poly_shapes,
                   region_index, hole_index, planes, obstacles, planes_indices>>

\* Lines 131-155: the region is kept: recovered to 3D when the gate says so,
\* its exterior appended to planes with z_value, poly_index to planes_indices.
AcceptRegion ==
    /\ InRegionLoop
    /\ PlaneAccepts(PolyArea(Region))
    /\ Region.ext # <<>>
    /\ LET gate == RecoveryGate(Dim(Region.ext))
           shape == IF gate
                    THEN recover_3d(Region, KdData(shell_coords, hole_coords), z_value)
                    ELSE Region
       IN /\ gate => Dim(Region.ext) < 3
          /\ poly_shape' = PolygonGeom(shape)
          /\ hole_coords' = IF gate THEN Append(hole_coords, shell_coords)
                            ELSE hole_coords
          /\ planes' = Append(planes, [poly |-> MakePolygon(shape.ext, <<>>),
                                       z |-> z_value])
          /\ trace' = trace
                \o <<Event("region_accept", region_index, 0, 0, PolyArea(Region), TRUE)>>
                \o (IF gate THEN <<Event("recover_3d", region_index, 0,
                                          Dim(Region.ext), 0, TRUE)>>
                    ELSE <<>>)
                \o <<Event("plane", region_index, 0, Len(shape.ext),
                           PolyArea(Region), TRUE)>>
    /\ planes_indices' = Append(planes_indices, poly_index)
    /\ hole_index' = 0
    /\ pc' = "for_hole"
    /\ UNCHANGED <<call, first, geos_order, cloud,
                   polygons, points, config_pp, rm, error, poly_index,
                   shell_coords, z_value, all_poly_shapes, region_index,
                   obstacles>>

\* ------------------------------------------------------------------------
\* Lines 157-165: one interior ring of the accepted region
\* ------------------------------------------------------------------------

InHoleLoop ==
    /\ pc = "for_hole"
    /\ hole_index < Len(poly_shape.geoms[1].holes)

\* hole_lr of line 157
HoleRing == poly_shape.geoms[1].holes[hole_index + 1]

\* Line 159 with >= for >.
HoleVerticesPass_AtLeast(hole_lr) == Len(hole_lr) >= post_filter.hole_vertices.min

\* Line 159: len(hole_lr.coords) counts the ring's coordinates.
HoleVerticesPass(hole_lr) == Len(hole_lr) > post_filter.hole_vertices.min

\* Line 163 read as (min <= 0 or area >= min) and area < max.
HoleAreaPass_OrFirst(area) ==
    /\ (post_filter.hole_area.min <= 0 \/ area >= post_filter.hole_area.min)
    /\ area < post_filter.hole_area.max

\* Line 163, with Python's precedence.
HoleAreaPass(area) ==
    \/ post_filter.hole_area.min <= 0
    \/ (area >= post_filter.hole_area.min /\ area < post_filter.hole_area.max)

\* Lines 157-165: the hole passes both filters: z_value is rebound to the z
\* of its first coordinate and the hole is appended to obstacles.
AdmitHole ==
    /\ InHoleLoop
    /\ HoleVerticesPass(HoleRing)
    /\ HoleAreaPass(RingArea(HoleRing))
    /\ Dim(HoleRing) = 3
    /\ z_value' = HoleRing[1][3]
    /\ obstacles' = Append(obstacles, [poly |-> MakePolygon(HoleRing, <<>>),
                                       z |-> HoleRing[1][3]])
    /\ hole_index' = hole_index + 1
    /\ trace' = Append(trace, Event("hole", region_index, hole_index,
                                    Len(HoleRing), RingArea(HoleRing), TRUE))
    /\ UNCHANGED <<call, first, geos_order, cloud,
                   polygons, points, config_pp, rm, pc, error, poly_index,
                   shell_coords, hole_coords, poly_shape, all_poly_shapes,
                   region_index, planes, planes_indices>>

\* Lines 157-163: the hole fails the vertex filter or the area filter.
RejectHole ==
    /\ InHoleLoop
    /\ ~(HoleVerticesPass(HoleRing) /\ HoleAreaPass(RingArea(HoleRing)))
    /\ hole_index' = hole_index + 1
    /\ trace' = Append(trace, Event("hole", region_index, hole_index,
                                    Len(HoleRing), RingArea(HoleRing), FALSE))
    /\ UNCHANGED <<call, first, geos_order, cloud,
                   polygons, points, config_pp, rm, pc, error, poly_index,
                   shell_coords, hole_coords, z_value, poly_shape,
                   all_poly_shapes, region_index, planes, obstacles,
                   planes_indices>>

\* Line 157: the interiors are exhausted; back to the region loop.
EndHoles ==
    /\ pc = "for_hole"
    /\ hole_index = Len(poly_shape.geoms[1].holes)
    /\ region_index' = region_index + 1
    /\ pc' = "for_region"
    /\ UNCHANGED <<call, first, geos_order, cloud,
                   polygons, points, config_pp, rm, error, poly_index,
                   shell_coords, hole_coords, z_value, poly_shape,
                   all_poly_shapes, hole_index, planes, obstacles,
                   planes_indices, trace>>

\* Line 131: the regions are exhausted; back to the polygon loop.
EndRegions ==
    /\ pc = "for_region"
    /\ region_index = Len(all_poly_shapes)
    /\ poly_index' = poly_index + 1
    /\ pc' = "for_poly"
    /\ UNCHANGED <<call, first, geos_order, cloud,
                   polygons, points, config_pp, rm, error,
                   shell_coords, hole_coords, z_value, poly_shape,
                   all_poly_shapes, region_index, hole_index, planes,
                   obstacles, planes_indices, trace>>

\* ------------------------------------------------------------------------
\* Lines 166-180: undo the rotation, return
\* ------------------------------------------------------------------------

\* Lines 170-172 / 175-177 for one (poly, z_value) pair.
Unrotated(pair) ==
    [poly |-> MakePolygon(RmApply(RmInv(rm), pair.poly.ext), <<>>), z |-> pair.z]

\* The array the name points is bound to when the two loops are over.
LastExterior ==
    IF obstacles # <<>> THEN obstacles[Len(obstacles)].poly.ext
    ELSE IF planes # <<>> THEN planes[Len(planes)].poly.ext
    ELSE points

\* Lines 170 / 175 writing the caller's array in place (points[:n] = ...).
CallerArrayAfter170_InPlace(array, exterior) ==
    IF planes = <<>> /\ obstacles = <<>> THEN array
    ELSE [k \in DOMAIN array |-> IF k + 1 <= Len(exterior) THEN exterior[k + 1]
                                 ELSE array[k]]

\* Lines 170 / 175: points = np.asarray(poly.exterior) binds the local name
\* to a new array; the array the caller passed stays as it is.
CallerArrayAfter170(array, exterior) == array

\* Lines 166-180 with a rotation: every plane and obstacle goes back to the
\* scene frame.
UnrotateAndReturn ==
    /\ pc = "for_poly"
    /\ poly_index = Len(polygons)
    /\ rm # None
    /\ planes' = [k \in 1..Len(planes) |-> Unrotated(planes[k])]
    /\ obstacles' = [k \in 1..Len(obstacles) |-> Unrotated(obstacles[k])]
    /\ points' = LastExterior
    /\ cloud' = CallerArrayAfter170(cloud, LastExterior)
    /\ trace' = Append(trace, Event("unrotate", 0, 0, 0, 0, TRUE))
    /\ pc' = "done"
    /\ UNCHANGED <<call, first, geos_order,
                   polygons, config_pp, rm, error, poly_index,
                   shell_coords, hole_coords, z_value, poly_shape,
                   all_poly_shapes, region_index, hole_index, planes_indices>>

\* Lines 166 and 180 without a rotation.
Return ==
    /\ pc = "for_poly"
    /\ poly_index = Len(polygons)
    /\ rm = None
    /\ pc' = "done"
    /\ UNCHANGED <<call, first, geos_order, cloud,
                   polygons, points, config_pp, rm, error, poly_index,
                   shell_coords, hole_coords, z_value, poly_shape,
                   all_poly_shapes, region_index, hole_index, planes,
                   obstacles, planes_indices, trace>>

Next ==
    \/ PolygonError
    \/ EarlyReject
    \/ ZValueError
    \/ AcceptPolygon
    \/ Normalize
    \/ RejectRegion
    \/ DimError
    \/ RecoverError
    \/ AcceptRegion
    \/ AdmitHole
    \/ RejectHole
    \/ EndHoles
    \/ EndRegions
    \/ UnrotateAndReturn
    \/ Return

Spec == Init /\ [][Next]_vars

\* ------------------------------------------------------------------------
\* The caller makes the same call again: same polygons, same array, same
\* config_pp and rm objects.  Lines 15-65: the parameter points is bound to
\* the caller's array, every other local starts unbound, the three output
\* lists start empty.
\* ------------------------------------------------------------------------

Outputs == [planes |-> planes, obstacles |-> obstacles,
            planes_indices |-> planes_indices]

CallAgain ==
    /\ pc = "done"
    /\ call = 1
    /\ first' = Outputs
    /\ call' = 2
    /\ points' = cloud
    /\ pc' = "for_poly"
    /\ error' = None
    /\ poly_index' = 0
    /\ shell_coords' = <<>>
    /\ hole_coords' = <<>>
    /\ z_value' = 0
    /\ poly_shape' = PolygonGeom(EmptyPolygon)
    /\ all_poly_shapes' = <<>>
    /\ region_index' = 0
    /\ hole_index' = 0
    /\ planes' = <<>>
    /\ obstacles' = <<>>
    /\ planes_indices' = <<>>
    /\ trace' = <<>>
    /\ UNCHANGED <<polygons, config_pp, rm, cloud, geos_order>>

\* The configurations the repeated call is gone through with.
RepeatConfigs ==
    {c \in Configs : c.filter.hole_vertices.min # 6 /\ c.filter.hole_area.max = 16}

InitRepeat == Init /\ config_pp \in RepeatConfigs

NextRepeat == Next \/ CallAgain

SpecRepeat == InitRepeat /\ [][NextRepeat]_vars

\* ------------------------------------------------------------------------
\* Reading the history
\* ------------------------------------------------------------------------

Returned == pc = "done"

PolyIndices == 0..(Len(polygons) - 1)

IsPlaneEvent(e) == e.op = "plane"

\* The plane appends, in order: entry k belongs to planes[k].
PlaneEvents == SelectSeq(trace, IsPlaneEvent)

IsRegionEvent(e) == e.op \in {"region_accept", "region_reject"}

IsAdmittedHole(e) == e.op = "hole" /\ e.ok

\* The obstacle appends, in order: entry k belongs to obstacles[k].
AdmittedHoles == SelectSeq(trace, IsAdmittedHole)

\* Region r of raw polygon i has an entry in planes.
HasPlane(i, r) ==
    \E k \in 1..Len(PlaneEvents) :
        PlaneEvents[k].poly = i /\ PlaneEvents[k].region = r

\* The history and the output lists tell the same appends.
HistoryMatchesOutputs ==
    /\ Len(PlaneEvents) = Len(planes)
    /\ Len(planes_indices) = Len(planes)
    /\ Len(AdmittedHoles) = Len(obstacles)
    /\ \A k \in 1..Len(planes) :
          /\ PlaneEvents[k].poly = planes_indices[k]
          /\ PlaneEvents[k].n = Len(planes[k].poly.ext)
    /\ \A k \in 1..Len(obstacles) :
          AdmittedHoles[k].n = Len(obstacles[k].poly.ext)

\* The square of twice the area of a ring in space (its vector area, by
\* Newell's sums): unchanged by a rotation, and equal to the square of twice
\* RingArea when the ring lies in a plane z = const.
SurfaceArea2Sq(ring) ==
    LET n == Len(ring)
        nx == SeqSum([k \in 1..(n - 1) |->
                 ring[k][2] * ring[k + 1][3] - ring[k][3] * ring[k + 1][2]])
        ny == SeqSum([k \in 1..(n - 1) |->
                 ring[k][3] * ring[k + 1][1] - ring[k][1] * ring[k + 1][3]])
        nz == SeqSum([k \in 1..(n - 1) |->
                 ring[k][1] * ring[k + 1][2] - ring[k][2] * ring[k + 1][1]])
    IN nx * nx + ny * ny + nz * nz

\* ------------------------------------------------------------------------
\* C1
\* ------------------------------------------------------------------------

C2_ObstacleAdmissionByArea ==
    /\ Len(AdmittedHoles) = Len(obstacles)
    /\ \A j \in 1..Len(trace) :
          (trace[j].op = "hole" /\ trace[j].n > post_filter.hole_vertices.min)
            => (trace[j].ok <=>
                  \/ post_filter.hole_area.min <= 0
                  \/ /\ post_filter.hole_area.min <= trace[j].area
                     /\ trace[j].area < post_filter.hole_area.max)

\* A hole whose area is exactly a positive hole_area.min became an obstacle.
C2_Witness ==
    \E j \in 1..Len(trace) :
        /\ trace[j].op = "hole"
        /\ trace[j].ok
        /\ post_filter.hole_area.min > 0
        /\ trace[j].area = post_filter.hole_area.min
        /\ Len(obstacles) > 0

\* ------------------------------------------------------------------------
\* C3
\* ------------------------------------------------------------------------

\* C3 as stated: a hole whose vertex count (the ring's coordinates less the
\* closing one) is <= hole_vertices.min is never admitted.
C3_Original_RejectedAtVertexCountMin ==
    \A j \in 1..Len(trace) :
        (trace[j].op = "hole" /\ trace[j].n - 1 <= post_filter.hole_vertices.min)
          => ~trace[j].ok

\* C3 amended: the count that is compared is the number of coordinates of
\* the closed ring (vertices + 1): a hole is rejected whenever that number
\* is <= hole_vertices.min, whatever its area, and a hole with more
\* coordinates is admitted exactly when its area passes; so a hole is
\* rejected for its vertices only when it has fewer than hole_vertices.min.
C3_RejectedAtCoordinateCountMin ==
    \A j \in 1..Len(trace) :
        trace[j].op = "hole" =>
            /\ trace[j].n <= post_filter.hole_vertices.min => ~trace[j].ok
            /\ (/\ trace[j].n > post_filter.hole_vertices.min
                /\ \/ post_filter.hole_area.min <= 0
                   \/ /\ post_filter.hole_area.min <= trace[j].area
                      /\ trace[j].area < post_filter.hole_area.max)
                 => trace[j].ok

\* A hole of 6 vertices (7 coordinates) was admitted with hole_vertices.min = 6.
C3_Witness ==
    \E j \in 1..Len(trace) :
        /\ trace[j].op = "hole"
        /\ trace[j].n = 7
        /\ post_filter.hole_vertices.min = 6
        /\ trace[j].ok
        /\ Len(obstacles) > 0

\* ------------------------------------------------------------------------
\* C4
\* ------------------------------------------------------------------------

\* C4: at the return planes_indices runs parallel to planes, holds only
\* indices of the input list, and holds i once for every part of polygon i's
\* normalized geometry whose area passes the filter: every part is examined.
C4_IndexFidelity ==
    Returned =>
        /\ HistoryMatchesOutputs
        /\ \A k \in 1..Len(planes_indices) : planes_indices[k] \in PolyIndices
        /\ \A i \in PolyIndices :
              LET examined == {j \in 1..Len(trace) :
                                 IsRegionEvent(trace[j]) /\ trace[j].poly = i}
                  surviving == {j \in examined :
                                  \/ post_filter.plane_area.min <= 0
                                  \/ trace[j].area >= post_filter.plane_area.min}
              IN /\ \A j \in 1..Len(trace) :
                       (trace[j].op = "regions" /\ trace[j].poly = i)
                         => Cardinality(examined) = trace[j].n
                 /\ Cardinality({k \in 1..Len(planes_indices) : planes_indices[k] = i})
                      = Cardinality(surviving)

\* A call has returned two planes that come from the same raw polygon.
C4_Witness ==
    /\ Returned
    /\ \E k \in 1..Len(planes_indices) :
          /\ k > 1
          /\ planes_indices[k] = planes_indices[k - 1]

\* ------------------------------------------------------------------------
\* C5
\* ------------------------------------------------------------------------

\* The z of the first shell vertex of raw polygon i as the caller sees it.
SceneFirstZ(i) == PointCloud[polygons[i + 1].shell[1]][3]

\* The same vertex's third coordinate in the working frame: a quarter turn
\* about x puts the scene's y there.
WorkingFirstZ(i) ==
    IF rm = None THEN PointCloud[polygons[i + 1].shell[1]][3]
    ELSE PointCloud[polygons[i + 1].shell[1]][2]

\* Position in the history of the append of planes[k].
PlaneEventPos(k) ==
    CHOOSE j \in 1..Len(trace) :
        /\ IsPlaneEvent(trace[j])
        /\ Cardinality({m \in 1..j : IsPlaneEvent(trace[m])}) = k

\* The z stored with the obstacle that history entry m appended.
ObstacleZAt(m) ==
    obstacles[Cardinality({x \in 1..m : IsAdmittedHole(trace[x])})].z

\* C5 as stated: every plane carries the scene-frame (pre-rotation) z of its
\* raw polygon's first shell vertex.
C5_Original_PlaneZIsPreRotationZ ==
    \A k \in 1..Len(planes) : planes[k].z = SceneFirstZ(planes_indices[k])

\* C5 amended: z_value is read after the rotation: a plane carries the third
\* coordinate, in the working frame, of its raw polygon's first shell vertex
\* (the scene z only when rm is None); and a plane appended after an
\* obstacle of the same raw polygon was admitted carries the z of the last
\* such obstacle instead.
C5_PlaneZIsWorkingFrameZ ==
    /\ Len(PlaneEvents) = Len(planes)
    /\ Len(planes_indices) = Len(planes)
    /\ Len(AdmittedHoles) = Len(obstacles)
    /\ \A k \in 1..Len(planes) :
          LET i == planes_indices[k]
              earlier == {m \in 1..PlaneEventPos(k) :
                            IsAdmittedHole(trace[m]) /\ trace[m].poly = i}
          IN planes[k].z = IF earlier = {} THEN WorkingFirstZ(i)
                           ELSE ObstacleZAt(SetMax(earlier))

\* With a rotation, a returned plane carries a z that is the working-frame z
\* of its first shell vertex and not the scene-frame one.
C5_Witness ==
    /\ Returned
    /\ rm # None
    /\ \E k \in 1..Len(planes) :
          /\ planes[k].z = WorkingFirstZ(planes_indices[k])
          /\ planes[k].z # SceneFirstZ(planes_indices[k])

\* ------------------------------------------------------------------------
\* C6
\* ------------------------------------------------------------------------

NoNormalization ==
    /\ config_pp.simplify = 0
    /\ config_pp.positive_buffer = 0
    /\ config_pp.negative_buffer = 0

\* The shell of raw polygon i in the scene frame, as a closed ring.
SceneShell(i) == CloseRing(get_points(polygons[i + 1].shell, PointCloud))

\* C6: with simplify and both buffers zero, the exterior of every returned
\* plane is the scene-frame shell of its raw polygon, vertex for vertex in
\* the same order, with a rotation (applied, then inverted) and without one;
\* and without a rotation nothing is rotated or rotated back.
C6_RotationRoundTrip ==
    (Returned /\ NoNormalization) =>
        /\ Len(planes_indices) = Len(planes)
        /\ \A k \in 1..Len(planes) :
              planes[k].poly.ext = SceneShell(planes_indices[k])
        /\ rm = None =>
              \A j \in 1..Len(trace) : trace[j].op \notin {"rotate", "unrotate"}

\* A call with a rotation and no normalization has returned a plane.
C6_Witness ==
    /\ Returned
    /\ NoNormalization
    /\ rm # None
    /\ Len(planes) > 0
    /\ \E j \in 1..Len(trace) : trace[j].op = "unrotate"

\* ------------------------------------------------------------------------
\* C7
\* ------------------------------------------------------------------------

\* The working polygon of line 76 for the raw polygon in hand.
WorkingPolygon ==
    MakePolygon(ShellCoords(polygons[poly_index + 1]),
                HoleCoords(polygons[poly_index + 1]))

\* C7: with simplify and both buffers zero, the candidate list of a polygon
\* is one region, the working polygon itself with its coordinates in the
\* same order, and recover_3d is never run.
C7_NormalizationIdentity ==
    NoNormalization =>
        /\ pc \in {"for_region", "for_hole"} =>
              /\ Len(all_poly_shapes) = 1
              /\ all_poly_shapes[1] = PolygonGeom(WorkingPolygon)
              /\ poly_shape = PolygonGeom(WorkingPolygon)
        /\ \A j \in 1..Len(trace) :
              trace[j].op \notin {"recover_3d", "simplify", "positive_buffer",
                                  "negative_buffer"}

\* The region loop is at work, without normalization, on a polygon whose
\* shell has a vertex inside a straight run (simplify would drop it).
C7_Witness ==
    /\ NoNormalization
    /\ pc = "for_hole"
    /\ polygons[poly_index + 1] = SmallSquare
    /\ Len(planes) > 0

\* ------------------------------------------------------------------------
\* C8
\* ------------------------------------------------------------------------

\* C8 as stated: a raw polygon with an empty shell is skipped: nothing is
\* rotated or normalized for it, no exception leaves the function at it, and
\* nothing is appended for it.
C8_EmptyShellSkipped ==
    \A i \in PolyIndices :
        polygons[i + 1].shell = <<>> =>
            /\ ~(pc = "raised" /\ poly_index = i)
            /\ \A j \in 1..Len(trace) :
                  trace[j].poly = i => trace[j].op = "early_reject"
            /\ \A k \in 1..Len(planes_indices) : planes_indices[k] # i

\* ------------------------------------------------------------------------
\* C9
\* ------------------------------------------------------------------------

\* C9 as stated: a region that is degenerate after normalization (no
\* coordinates, or area 0) is rejected by the filter: it is never accepted
\* and no exception leaves the function at it, whatever plane_area.min is.
C9_DegenerateRegionRejected ==
    /\ \A j \in 1..Len(trace) :
          trace[j].op = "region_accept" => trace[j].area > 0
    /\ ~(/\ pc = "raised"
         /\ region_index < Len(all_poly_shapes)
         /\ \E j \in 1..Len(trace) :
               trace[j].op = "regions" /\ trace[j].poly = poly_index
         /\ Region.ext = <<>>)

\* ------------------------------------------------------------------------
\* C10
\* ------------------------------------------------------------------------

\* The area line 85 measures for raw polygon i.
InitialArea(i) ==
    LET rows(idxs) == IF rm # None THEN RmApply(rm, get_points(idxs, PointCloud))
                      ELSE get_points(idxs, PointCloud)
        poly == polygons[i + 1]
    IN PolyArea(MakePolygon(rows(poly.shell),
                            [k \in 1..Len(poly.holes) |-> rows(poly.holes[k])]))

\* C10: a raw polygon whose initial area is below a truthy plane_area.min
\* goes no further than the early check: no simplify, no buffer, no region,
\* no plane, no hole and no planes_indices entry exist for it; a polygon
\* whose initial area equals plane_area.min is not rejected early: once the
\* loop has passed it, its z_value was read.
C10_EarlyRejectBeforeNormalization ==
    \A i \in PolyIndices :
        \A min \in {post_filter.plane_area.min} :
            \/ min = 0 /\ poly_index <= i
            \/ \A area \in {InitialArea(i)} :
                  /\ (min # 0 /\ area < min) =>
                        /\ \A j \in 1..Len(trace) :
                              trace[j].poly = i
                                => trace[j].op \in {"rotate", "early_reject"}
                        /\ \A k \in 1..Len(planes_indices) : planes_indices[k] # i
                  /\ (area = min /\ polygons[i + 1].shell # <<>> /\ poly_index > i) =>
                        /\ \E j \in 1..Len(trace) :
                              trace[j].poly = i /\ trace[j].op = "z_value"
                        /\ \A j \in 1..Len(trace) :
                              trace[j].poly = i => trace[j].op # "early_reject"

\* A call with a positive buffer has returned after rejecting early a
\* polygon whose buffered area would have reached the threshold.
C10_Witness ==
    /\ Returned
    /\ Truthy(config_pp.positive_buffer)
    /\ \E j \in 1..Len(trace) :
          /\ trace[j].op = "early_reject"
          /\ polygons[trace[j].poly + 1].shell # <<>>
          /\ LET shape == MakePolygon(get_points(polygons[trace[j].poly + 1].shell, PointCloud), <<>>)
             IN PolyArea(Buffer(shape, config_pp.positive_buffer).geoms[1])
                  >= post_filter.plane_area.min


\* ------------------------------------------------------------------------
\* C11
\* ------------------------------------------------------------------------

SomeNormalization ==
    \/ Truthy(config_pp.simplify)
    \/ Truthy(config_pp.positive_buffer)
    \/ Truthy(config_pp.negative_buffer)

\* C11 as stated: create_kd_tree and recover_3d run for an accepted region
\* only when simplify or a buffer is enabled and the region's coordinates
\* are 2D; a region that still has 3D coordinates never goes through them.
C11_RecoveryOnlyWhenZDropped ==
    \A j \in 1..Len(trace) :
        trace[j].op = "recover_3d" => (SomeNormalization /\ trace[j].n < 3)


\* ------------------------------------------------------------------------
\* C12
\* ------------------------------------------------------------------------

\* C12 as stated: every plane carries the z recorded at line 90 for its raw
\* polygon (the same z_value line 144 hands to recover_3d for the region),
\* whatever obstacles earlier regions of the polygon gave, so planes with
\* the same source index carry the same z.
C12_OneZPerPolygon ==
    /\ Len(planes_indices) = Len(planes)
    /\ \A k \in 1..Len(planes) :
          planes[k].z = WorkingFirstZ(planes_indices[k])
    /\ \A k, m \in 1..Len(planes) :
          planes_indices[k] = planes_indices[m] => planes[k].z = planes[m].z


\* ------------------------------------------------------------------------
\* C13
\* ------------------------------------------------------------------------

\* Lines 69-74: rows of the caller's point cloud in the working frame.
WorkingRows(idxs) ==
    IF rm # None THEN RmApply(rm, get_points(idxs, PointCloud))
    ELSE get_points(idxs, PointCloud)

\* Lines 157-165 for the interiors of one region from interior k on, entered
\* with z_value z: the obstacles appended and the z_value left behind.
RECURSIVE SoloHoles(_, _, _, _)
SoloHoles(holes, k, z, acc) ==
    IF k > Len(holes) THEN [obstacles |-> acc, z |-> z]
    ELSE IF HoleVerticesPass(holes[k]) /\ HoleAreaPass(RingArea(holes[k]))
         THEN SoloHoles(holes, k + 1, holes[k][1][3],
                        Append(acc, [poly |-> MakePolygon(holes[k], <<>>),
                                     z |-> holes[k][1][3]]))
         ELSE SoloHoles(holes, k + 1, z, acc)

\* Lines 131-165 for the regions of one raw polygon from region k on,
\* entered with z_value z and the tree data of the polygon alone.
RECURSIVE SoloRegions(_, _, _, _, _)
SoloRegions(parts, k, z, data, acc) ==
    IF k > Len(parts) THEN acc
    ELSE LET region == parts[k].geoms[1]
         IN IF ~PlaneAccepts(PolyArea(region))
            THEN SoloRegions(parts, k + 1, z, data, acc)
            ELSE IF \/ region.ext = <<>>
                    \/ RecoveryGate(Dim(region.ext)) /\ Dim(region.ext) = 3
                 THEN [acc EXCEPT !.raised = TRUE]
                 ELSE LET shape == IF RecoveryGate(Dim(region.ext))
                                   THEN recover_3d(region, data, z)
                                   ELSE region
                          hs == SoloHoles(shape.holes, 1, z, <<>>)
                      IN SoloRegions(parts, k + 1, hs.z, data,
                            [planes |-> Append(acc.planes,
                                          [poly |-> MakePolygon(shape.ext, <<>>),
                                           z |-> z]),
                             obstacles |-> acc.obstacles \o hs.obstacles,
                             raised |-> FALSE])

NoEntries == [planes |-> <<>>, obstacles |-> <<>>, raised |-> FALSE]

\* Lines 166-177 on one polygon's entries.
SoloReturn(out) ==
    IF rm = None \/ out.raised THEN out
    ELSE [planes |-> [k \in 1..Len(out.planes) |-> Unrotated(out.planes[k])],
          obstacles |-> [k \in 1..Len(out.obstacles) |-> Unrotated(out.obstacles[k])],
          raised |-> FALSE]

\* What a call on the list made of the one raw polygon poly can give, with
\* this call's point cloud, config_pp and rm: started afresh, whatever the
\* polygons before it left behind.
SoloOutcomes(poly) ==
    LET shell == WorkingRows(poly.shell)
        holes == [k \in 1..Len(poly.holes) |-> WorkingRows(poly.holes[k])]
        shape == MakePolygon(shell, holes)
    IN IF shell = <<>>
       THEN {[NoEntries EXCEPT !.raised = TRUE]}
              \cup (IF EarlyRejects(0) THEN {NoEntries} ELSE {})
       ELSE IF EarlyRejects(PolyArea(shape)) THEN {NoEntries}
       ELSE UNION {
              {SoloReturn(SoloRegions([k \in 1..Len(parts) |-> parts[order[k]]],
                                      1, shell[1][3], KdData(shell, holes),
                                      NoEntries)) :
                 order \in PartOrders(Len(parts))} :
              parts \in {AllPolyShapes(Simplify2(NegativeBuffer(PositiveBuffer(
                            Simplify1(PolygonGeom(shape))))))}}

\* The entries of planes that carry source index i (they are contiguous
\* when planes_indices is non-decreasing).
PlanesOf(i) ==
    SubSeq(planes,
           1 + Cardinality({k \in 1..Len(planes_indices) : planes_indices[k] < i}),
           Cardinality({k \in 1..Len(planes_indices) : planes_indices[k] <= i}))

\* The entries of obstacles that were appended while raw polygon i was
\* worked on.
ObstaclesOf(i) ==
    SubSeq(obstacles,
           1 + Cardinality({k \in 1..Len(AdmittedHoles) : AdmittedHoles[k].poly < i}),
           Cardinality({k \in 1..Len(AdmittedHoles) : AdmittedHoles[k].poly <= i}))

\* C13: when the call returns, planes_indices is non-decreasing and the
\* entries of planes and obstacles that come from raw polygon i are those a
\* call on polygon i alone returns, with the same point cloud, config_pp and
\* rm: nothing the other polygons of the list did or left behind shows in
\* them, so the output is the per-polygon results merged by index.
C13_PolygonsIndependent ==
    Returned =>
        /\ HistoryMatchesOutputs
        /\ \A k \in 2..Len(planes_indices) :
              planes_indices[k - 1] <= planes_indices[k]
        /\ \A i \in PolyIndices :
              \E out \in SoloOutcomes(polygons[i + 1]) :
                  /\ ~out.raised
                  /\ PlanesOf(i) = out.planes
                  /\ ObstaclesOf(i) = out.obstacles

\* A call has returned entries for two raw polygons, the first of which had
\* an obstacle admitted (z_value rebound) before the second was worked on.
C13_Witness ==
    /\ Returned
    /\ Len(polygons) = 2
    /\ polygons[1] # polygons[2]
    /\ PlanesOf(0) # <<>>
    /\ PlanesOf(1) # <<>>
    /\ ObstaclesOf(0) # <<>>
    /\ planes[Len(planes)].z # obstacles[Len(obstacles)].z


\* ------------------------------------------------------------------------
\* C14
\* ------------------------------------------------------------------------

\* C14: no step of a call changes the polygons list, the caller's point
\* cloud array, config_pp or rm, and the same call made again returns the
\* planes, obstacles and planes_indices the first call returned.
C14_InputsUnchangedAndRepeatable ==
    /\ [][/\ polygons' = polygons
          /\ cloud' = cloud
          /\ config_pp' = config_pp
          /\ rm' = rm]_vars
    /\ []((call = 2 /\ Returned) => Outputs = first)

\* The second call has returned planes and obstacles, with a rotation: the
\* first call went through lines 170 and 175, which rebind points.
C14_Witness ==
    /\ call = 2
    /\ Returned
    /\ rm # None
    /\ planes # <<>>
    /\ obstacles # <<>>
    /\ cloud = PointCloud
    /\ points # cloud

=============================================================================
